---- MODULE Spec2Model ----
(***************************************************************************)
(* A model of the RAG chatbot backend (src/backend): the text chunker of   *)
(* DocumentProcessor, retrieval and prompt composition of RAGService, the  *)
(* line re-segmentation of the /chat/stream event generator, and the Drive *)
(* sync pass with the document operations of RAGService and VectorStore.   *)
(*                                                                         *)
(* Each subsystem has its own specification (ChunkSpec, PromptSpec,        *)
(* StreamSpec, SyncSpec) over the shared variable list; a specification    *)
(* leaves the variables of the other subsystems at their initial values.   *)
(*                                                                         *)
(* Text is a sequence of one-character strings.  A token of the tiktoken   *)
(* encoding is a non-empty sequence of characters, and decode() is the     *)
(* concatenation of the tokens' characters.                                *)
(***************************************************************************)
EXTENDS Integers, Sequences, FiniteSets, TLC

VARIABLES
    \* DocumentProcessor._split_text_into_chunks
    tokens,          \* self.encoding.encode(text)
    chunk_size,      \* self.chunk_size
    chunk_overlap,   \* self.chunk_overlap
    start,           \* the window start of the while loop
    chunks,          \* the list of chunk texts built so far
    processed_chunks,\* the list process_document returns
    cpc              \* "loop": at the head of the while loop, "done": the
                     \* chunker returned, "processed": process_document did

VARIABLES
    \* RAGService.retrieve_context / generate_rag_prompt
    query,           \* the user's query
    hits,            \* what the collection answers to the query, nearest first
    search_fails,    \* whether VectorStore.search raises on this call
    context_results, \* the list retrieve_context returned
    rag_prompt,      \* the string generate_rag_prompt returned
    ppc              \* "query", "retrieved" or "composed"

VARIABLES
    \* stream_chat and its event_generator
    app,             \* the process after the import of main: serving or not,
                     \* and whether the configuration warning was logged
    chat,            \* the request and the prompt made of it
    payload,         \* the prompt handed to client.stream: <<>> or <<prompt>>
    context_info,    \* None (<<>>) or <<sources>>, the titles of the frame
    api_key,         \* whether Config.TOGETHER_API_KEY is set
    buffer,          \* the line buffer
    out,             \* the frames yielded so far
    fragments,       \* the text fragments taken from upstream so far
    n_lines,         \* the number of upstream lines read so far
    last_line,       \* the upstream line read last: <<>> or <<line>>
    status_code,     \* response.status_code: "" before the answer
    conn,            \* "closed" or "open": the httpx client and response
    ended,           \* how the exchange left the streaming loop
    spc              \* "request", "start", "connect", "streaming", "flush"
                     \* or "done"

VARIABLES
    \* DriveSyncService, RAGService, VectorStore and the Drive folder
    remote,            \* the Drive folder: per id, listed or not, modifiedTime
    clock,             \* the time, as datetime.now() reads it
    synced_documents,  \* DriveSyncService.synced_documents
    last_sync_time,    \* DriveSyncService.last_sync_time: <<>> (None) or <<t>>
    state_file,        \* drive_sync_state.json: <<>> (absent) or <<contents>>
    index,             \* the chunks of the "documents" collection
    documents,         \* the keys of RAGService.documents
    next_uid,          \* the next fresh chunk id (uuid4)
    sync,              \* the sync_folder pass in progress or last returned
    response,          \* the last HTTP response sent
    prev_pass,         \* the last completed pass, <<>> once anything changed
    suspended          \* the passes asleep in asyncio.sleep while a later
                       \* pass runs

chunkVars ==
    <<tokens, chunk_size, chunk_overlap, start, chunks, processed_chunks, cpc>>

promptVars == <<query, hits, search_fails, context_results, rag_prompt, ppc>>

streamVars ==
    <<app, chat, payload, context_info, api_key, buffer, out, fragments, n_lines, last_line,
      status_code, conn, ended, spc>>

syncVars ==
    <<remote, clock, synced_documents, last_sync_time, state_file, index,
      documents, next_uid, sync, response, prev_pass, suspended>>

vars == <<chunkVars, promptVars, streamVars, syncVars>>

exceptChunk == <<promptVars, streamVars, syncVars>>

exceptPrompt == <<chunkVars, streamVars, syncVars>>

exceptStream == <<chunkVars, promptVars, syncVars>>

exceptSync == <<chunkVars, promptVars, streamVars>>

-----------------------------------------------------------------------------
(* Bounds *)

MaxTokens == 4
MaxChunkSize == 3

\* Every run of the loop that returns emits at most Len(tokens) chunks (it
\* returns only when each window starts where the previous one ended), so
\* this cap cuts only runs that have already repeated a window.
MaxChunks == MaxTokens + 2

\* n_results of a search (Config.MAX_RETRIEVAL_RESULTS, set by the environment).
MaxResults == 2

\* The number of lines the completion endpoint sends on one stream.
MaxLines == 3

\* The number of chunks one document has in the collection.
MaxDocChunks == 2

\* The last reading of the clock.
MaxClock == 3

\* The clock counts in steps of this many hours.
HoursPerTick == 12

-----------------------------------------------------------------------------
(* Python helpers *)

Min(a, b) == IF a <= b THEN a ELSE b

Max(a, b) == IF a >= b THEN a ELSE b

\* seq[a:b] of Python, 0-based, a negative index counting from the end.
PySlice(seq, a, b) ==
    LET n  == Len(seq)
        lo == IF a < 0 THEN Max(a + n, 0) ELSE Min(a, n)
        hi == IF b < 0 THEN Max(b + n, 0) ELSE Min(b, n)
    IN  IF lo >= hi THEN <<>> ELSE SubSeq(seq, lo + 1, hi)

RECURSIVE Flatten(_)
Flatten(seqs) ==
    IF seqs = <<>> THEN <<>> ELSE Head(seqs) \o Flatten(Tail(seqs))

\* sep.join(parts)
RECURSIVE PyJoin(_, _)
PyJoin(sep, parts) ==
    IF parts = <<>> THEN <<>>
    ELSE IF Len(parts) = 1 THEN parts[1]
    ELSE parts[1] \o sep \o PyJoin(sep, Tail(parts))

-----------------------------------------------------------------------------
(* The values a subsystem's variables keep while another one runs *)

ChunkIdle ==
    /\ tokens = <<>>
    /\ chunk_size = 1
    /\ chunk_overlap = 0
    /\ start = 0
    /\ chunks = <<>>
    /\ processed_chunks = <<>>
    /\ cpc = "processed"

PromptIdle ==
    /\ query = <<>>
    /\ hits = <<>>
    /\ search_fails = FALSE
    /\ context_results = <<>>
    /\ rag_prompt = <<>>
    /\ ppc = "composed"

NoChat ==
    [prompt |-> <<>>, use_rag |-> FALSE, rag_available |-> FALSE,
     search_fails |-> FALSE, rows |-> <<>>, enhanced_prompt |-> <<>>]

StreamIdle ==
    /\ app = [serving |-> TRUE, warned |-> TRUE]
    /\ chat = NoChat
    /\ payload = <<>>
    /\ context_info = <<>>
    /\ api_key = FALSE
    /\ buffer = <<>>
    /\ out = <<>>
    /\ fragments = <<>>
    /\ n_lines = 0
    /\ last_line = <<>>
    /\ status_code = ""
    /\ conn = "closed"
    /\ ended = "not started"
    /\ spc = "done"

\* The pass record while no sync_folder call has been made.
NoPass ==
    [pc |-> "idle", op |-> "none", force |-> FALSE, background |-> FALSE, docs |-> <<>>,
     i |-> 0, doc_id |-> "", is_update |-> FALSE, log |-> <<>>,
     prior |-> <<>>, saved |-> FALSE, yielded |-> FALSE,
     stats |-> [total_found |-> 0, added |-> 0, updated |-> 0, skipped |-> 0,
                errors |-> 0, error_details |-> <<>>]]

NoResponse == [op |-> "none", id |-> "", status |-> 0, stats |-> <<>>]

SyncIdle ==
    /\ remote = <<>>
    /\ clock = 0
    /\ synced_documents = {}
    /\ last_sync_time = <<>>
    /\ state_file = <<>>
    /\ index = {}
    /\ documents = {}
    /\ next_uid = 0
    /\ sync = NoPass
    /\ response = NoResponse
    /\ prev_pass = <<>>
    /\ suspended = <<>>

-----------------------------------------------------------------------------
(* DocumentProcessor: the chunker *)

\* The document ids in use.
DocIds == {"A", "B"}

\* The token vocabulary: one-character tokens, and one two-character token.
Vocab == { <<"a">>, <<".">>, <<"!">>, <<"b", "c">> }

TokenSeqs == UNION { [1..n -> Vocab] : n \in 0..MaxTokens }

\* self.encoding.decode(tokens)
Decode(toks) == Flatten(toks)

\* The character class [.!?] of the sentence pattern.
IsTerminator(c) == c \in {".", "!", "?"}

\* The first index >= i of s that holds no terminator (Len(s)+1 if none).
RECURSIVE SkipRun(_, _)
SkipRun(s, i) ==
    IF i <= Len(s) /\ IsTerminator(s[i]) THEN SkipRun(s, i + 1) ELSE i

\* re.split(r'[.!?]+', s): the pieces between maximal runs of terminators.
RECURSIVE SplitFrom(_, _, _, _)
SplitFrom(s, i, cur, acc) ==
    IF i > Len(s) THEN Append(acc, cur)
    ELSE IF IsTerminator(s[i])
         THEN SplitFrom(s, SkipRun(s, i), <<>>, Append(acc, cur))
         ELSE SplitFrom(s, i + 1, Append(cur, s[i]), acc)

ReSplitSentences(s) == SplitFrom(s, 1, <<>>, <<>>)

\* DocumentProcessor._break_at_sentence_boundary
BreakAtSentenceBoundary(text) ==
    LET sentences == ReSplitSentences(text)
    IN  IF Len(sentences) > 1
        THEN PyJoin(<<".">>, SubSeq(sentences, 1, Len(sentences) - 1)) \o <<".">>
        ELSE text

\* The window end of one loop iteration.
WindowEnd(s) == Min(s + chunk_size, Len(tokens))

\* The chunk text one loop iteration appends.
ChunkText(s) ==
    LET end        == WindowEnd(s)
        chunk_text == Decode(PySlice(tokens, s, end))
    IN  IF end < Len(tokens) THEN BreakAtSentenceBoundary(chunk_text)
        ELSE chunk_text

\* The start of the next window.
NextStart(s) == WindowEnd(s) - chunk_overlap

ChunkStart ==
    /\ tokens \in TokenSeqs
    /\ chunk_size \in 1..MaxChunkSize
    /\ chunk_overlap \in 0..chunk_size
    /\ start = 0
    /\ chunks = <<>>
    /\ processed_chunks = <<>>
    /\ cpc = "loop"

\* One iteration of `while start < len(tokens)`, with its break.
ChunkIterate ==
    /\ cpc = "loop"
    /\ start < Len(tokens)
    /\ Len(chunks) < MaxChunks
    /\ chunks' = Append(chunks, ChunkText(start))
    /\ start' = NextStart(start)
    /\ cpc' = IF NextStart(start) >= Len(tokens) THEN "done" ELSE "loop"
    /\ UNCHANGED <<tokens, chunk_size, chunk_overlap, processed_chunks>>
    /\ UNCHANGED exceptChunk

\* The loop condition fails: return chunks.
ChunkReturn ==
    /\ cpc = "loop"
    /\ start >= Len(tokens)
    /\ cpc' = "done"
    /\ UNCHANGED <<tokens, chunk_size, chunk_overlap, start, chunks,
                   processed_chunks>>
    /\ UNCHANGED exceptChunk

\* self.encoding.encode(text): the characters b, c merge into one token.
RECURSIVE Encode(_)
Encode(text) ==
    IF text = <<>> THEN <<>>
    ELSE IF Len(text) >= 2 /\ text[1] = "b" /\ text[2] = "c"
         THEN << <<"b", "c">> >> \o Encode(SubSeq(text, 3, Len(text)))
         ELSE << <<text[1]>> >> \o Encode(Tail(text))

\* ChunkDocuments numbering the chunks from 1.
ChunkDocumentsFromOne(chs, document_id, title) ==
    [k \in 1..Len(chs) |->
       [content  |-> chs[k],
        metadata |-> [source       |-> "google_docs",
                      document_id  |-> document_id,
                      title        |-> title,
                      chunk_index  |-> k,
                      total_chunks |-> Len(chs),
                      token_count  |-> Len(Encode(chs[k]))]]]

\* The chunk documents of process_document: enumerate(chunks) counts from 0.
ChunkDocuments(chs, document_id, title) ==
    [k \in 1..Len(chs) |->
       [content  |-> chs[k],
        metadata |-> [source       |-> "google_docs",
                      document_id  |-> document_id,
                      title        |-> title,
                      chunk_index  |-> k - 1,
                      total_chunks |-> Len(chs),
                      token_count  |-> Len(Encode(chs[k]))]]]

\* process_document after _split_text_into_chunks returned.  (The characters
\* of the vocabulary are ones _clean_text leaves as they are.)
ProcessDocumentReturn(document_id) ==
    /\ cpc = "done"
    /\ processed_chunks' = ChunkDocuments(chunks, document_id, document_id)
    /\ cpc' = "processed"
    /\ UNCHANGED <<tokens, chunk_size, chunk_overlap, start, chunks>>
    /\ UNCHANGED exceptChunk

ChunkNext ==
    \/ ChunkIterate
    \/ ChunkReturn
    \/ \E document_id \in DocIds : ProcessDocumentReturn(document_id)

ChunkInit == ChunkStart /\ PromptIdle /\ StreamIdle /\ SyncIdle

ChunkSpec == ChunkInit /\ [][ChunkNext]_vars

-----------------------------------------------------------------------------
(* Claims about the chunker *)

\* The character offset in the decoded text of token index k >= 0.
CharOffset(k) == Len(Decode(PySlice(tokens, 0, Max(k, 0))))

ValidChunkConfig == 0 <= chunk_overlap /\ chunk_overlap < chunk_size

\* C1: for every non-empty text and every configuration with
\* 0 <= chunk_overlap < chunk_size, the while loop of
\* _split_text_into_chunks exits after finitely many iterations and the list
\* it returns is not empty.  The loop reads nothing but start (tokens and the
\* configuration are fixed, chunks is only appended to), so it exits only if
\* no iteration leaves it at the start it began with.
C1_TerminatesNonEmpty ==
    [][ (Len(tokens) > 0 /\ ValidChunkConfig)
          => /\ (cpc = "loop" /\ cpc' = "loop") => start' # start
             /\ cpc' = "done" => chunks' # <<>> ]_vars

\* C2: for a non-empty text of at most chunk_size tokens and an overlap in
\* 0..chunk_size-1 the chunker returns exactly [T]: the list it builds never
\* holds anything but the one chunk T, and it is [T] when the loop returns.
C2_ShortTextOneChunk ==
    (Len(tokens) > 0 /\ Len(tokens) <= chunk_size /\ ValidChunkConfig)
        => /\ chunks \in { <<>>, <<Decode(tokens)>> }
           /\ cpc = "done" => chunks = <<Decode(tokens)>>

\* C3: the chunks cover the text without gaps: when an iteration emits a chunk
\* and the loop goes on, the next window starts no later than the position
\* where the emitted chunk ended; when it emits the last chunk, that chunk
\* reaches the end of the text.
C3_ChunksCoverText ==
    [][ (ValidChunkConfig /\ chunks' # chunks)
          => LET emitted    == chunks'[Len(chunks')]
                 emittedEnd == CharOffset(start) + Len(emitted)
             IN  /\ cpc' = "loop" => CharOffset(start') <= emittedEnd
                 /\ cpc' = "done" => emittedEnd >= Len(Decode(tokens)) ]_vars

\* C11: the chunk documents process_document returns for one document carry
\* the chunk_index values 0, 1, ..., total_chunks - 1 in emission order, and
\* the total_chunks of each is the number of chunk documents returned.
C11_ChunkIndexContiguous ==
    cpc = "processed" =>
        /\ Len(processed_chunks) = Len(chunks)
        /\ \A k \in 1..Len(processed_chunks) :
             /\ processed_chunks[k].metadata.chunk_index = k - 1
             /\ processed_chunks[k].metadata.total_chunks = Len(processed_chunks)
             /\ processed_chunks[k].content = chunks[k]

\* process_document returned three chunk documents or more.
C11_Witness ==
    /\ cpc = "processed"
    /\ Len(processed_chunks) >= 3

\* C17: the window start strictly increases from one loop iteration to the
\* next: it becomes end - chunk_overlap, or end when end - chunk_overlap would
\* not be greater than the previous start or would be negative.
C17_StartStrictlyIncreases ==
    [][ (ValidChunkConfig /\ chunks' # chunks)
          => LET end == WindowEnd(start)
             IN  /\ start' > start
                 /\ start' = IF end - chunk_overlap > start
                                /\ end - chunk_overlap >= 0
                             THEN end - chunk_overlap ELSE end ]_vars

\* The positions of the sentence terminators in a text.
TerminatorsIn(text) == { k \in 1..Len(text) : IsTerminator(text[k]) }

\* C18: the chunk an iteration emits is a contiguous piece of the text, with
\* no character replaced or removed: it is the window's text, or, for a window
\* that does not reach the end of the text and has a sentence terminator past
\* its midpoint, the window's text up to and including its last terminator.
C18_ChunkIsSubstring ==
    [][ (ValidChunkConfig /\ chunks' # chunks)
          => LET end     == WindowEnd(start)
                 window  == Decode(PySlice(tokens, start, end))
                 emitted == chunks'[Len(chunks')]
                 n       == Len(emitted)
             IN  /\ n <= Len(window)
                 /\ emitted = SubSeq(window, 1, n)
                 /\ n < Len(window)
                      => /\ end < Len(tokens)
                         /\ n \in TerminatorsIn(window)
                         /\ \A k \in TerminatorsIn(window) : k <= n
                         /\ 2 * n > Len(window) ]_vars

-----------------------------------------------------------------------------
(* VectorStore.search, RAGService.retrieve_context and generate_rag_prompt *)

\* Template literals of generate_rag_prompt; each is one element of a text.
PromptHeader ==
    "You are a helpful assistant. Use the following context to answer the user's question. If the context doesn't contain relevant information, say so clearly and provide a general response.\n\nContext:\n"

FromOpen == "From '"

FromClose == "':\n"

PartSeparator == "\n\n"

UserCue == "\n\nUser: "

AssistantCue == "\nAssistant:"

UnknownDocument == <<"Unknown Document">>

Queries == { <<"x">>, <<"q", "?">> }

Contents == { <<"x">>, <<"y", "x">> }

\* Chunk metadata as stored; a chunk stored by another writer may lack a title.
Metadatas == { [title |-> <<"T">>], [title |-> <<"U">>], [document_id |-> "A"] }

\* Distances in tenths: similarity 1.0, 0.3 and 0.1.
Distances == { 0, 7, 9 }

\* One row of collection.query's answer.
Hits == [content : Contents, metadata : Metadatas, distance : Distances]

\* collection.query answers at most n_results rows, nearest first.
HitLists ==
    { h \in UNION { [1..n -> Hits] : n \in 0..MaxResults } :
        \A i \in 1..(Len(h) - 1) : h[i].distance <= h[i + 1].distance }

\* 1.0 in tenths, the minuend of the distance-to-similarity conversion.
ScoreOne == 10

\* The minimum relevance of the retrieval contract (0.3, in tenths).
RelevanceThreshold == 3

\* dict.get(key, default)
DictGet(d, key, default) == IF key \in DOMAIN d THEN d[key] ELSE default

\* VectorStore.search: every row of the answer, formatted.
VectorStoreSearch(rows) ==
    [i \in 1..Len(rows) |->
        [content          |-> rows[i].content,
         metadata         |-> rows[i].metadata,
         similarity_score |-> ScoreOne - rows[i].distance]]

\* RAGService.retrieve_context: the search results, or [] when search raises.
RetrieveContextResult(rows, raises) ==
    IF raises THEN <<>> ELSE VectorStoreSearch(rows)

\* ContextParts with the loop stopping one result short.
ContextPartsDropLast(results) ==
    [i \in 1..(Len(results) - 1) |->
        <<FromOpen>> \o DictGet(results[i].metadata, "title", UnknownDocument)
            \o <<FromClose>> \o results[i].content]

\* The context_parts list of generate_rag_prompt.
ContextParts(results) ==
    [i \in 1..Len(results) |->
        <<FromOpen>> \o DictGet(results[i].metadata, "title", UnknownDocument)
            \o <<FromClose>> \o results[i].content]

\* RAGService.generate_rag_prompt
GenerateRagPrompt(q, results) ==
    IF results = <<>> THEN q
    ELSE <<PromptHeader>> \o PyJoin(<<PartSeparator>>, ContextParts(results))
            \o <<UserCue>> \o q \o <<AssistantCue>>

PromptStart ==
    /\ query \in Queries
    /\ hits \in HitLists
    /\ search_fails \in BOOLEAN
    /\ context_results = <<>>
    /\ rag_prompt = <<>>
    /\ ppc = "query"

\* rag_service.retrieve_context(query, max_results)
RetrieveContext ==
    /\ ppc = "query"
    /\ context_results' = RetrieveContextResult(hits, search_fails)
    /\ ppc' = "retrieved"
    /\ UNCHANGED <<query, hits, search_fails, rag_prompt>>
    /\ UNCHANGED exceptPrompt

\* rag_service.generate_rag_prompt(query, context_results)
ComposePrompt ==
    /\ ppc = "retrieved"
    /\ rag_prompt' = GenerateRagPrompt(query, context_results)
    /\ ppc' = "composed"
    /\ UNCHANGED <<query, hits, search_fails, context_results>>
    /\ UNCHANGED exceptPrompt

PromptNext == RetrieveContext \/ ComposePrompt

PromptInit == PromptStart /\ ChunkIdle /\ StreamIdle /\ SyncIdle

PromptSpec == PromptInit /\ [][PromptNext]_vars

-----------------------------------------------------------------------------
(* Claims about retrieval and prompt composition *)

\* C4: every match retrieval returns has a similarity_score strictly greater
\* than the relevance threshold, so when every row of the index answer is at
\* or below the threshold the result is the empty list.
C4_ResultsAboveThreshold ==
    ppc # "query"
        => \A i \in 1..Len(context_results) :
              context_results[i].similarity_score > RelevanceThreshold

\* The positions of a template literal in a text, in increasing order.
RECURSIVE PositionsFrom(_, _, _)
PositionsFrom(s, piece, i) ==
    IF i > Len(s) THEN <<>>
    ELSE IF s[i] = piece THEN <<i>> \o PositionsFrom(s, piece, i + 1)
    ELSE PositionsFrom(s, piece, i + 1)

Positions(s, piece) == PositionsFrom(s, piece, 1)

\* The prompt read back: block k runs from just after the k-th FromOpen to
\* just before the separator of the next block, or the user cue for the last.
BlockOf(p, k) ==
    LET opens == Positions(p, FromOpen)
        user  == Positions(p, UserCue)
        last  == IF k < Len(opens) THEN opens[k + 1] - 2 ELSE user[1] - 1
    IN  SubSeq(p, opens[k] + 1, last)

\* C5: generate_rag_prompt(q, []) is q; for a non-empty list the prompt holds
\* one context block per match, in the order of the matches, each made of that
\* match's title and content, and after the blocks the literal query.
C5_PromptComposition ==
    ppc = "composed"
        => IF context_results = <<>> THEN rag_prompt = query
           ELSE LET n     == Len(context_results)
                    opens == Positions(rag_prompt, FromOpen)
                    user  == Positions(rag_prompt, UserCue)
                IN  /\ Len(opens) = n
                    /\ Len(user) = 1
                    /\ Len(Positions(rag_prompt, FromClose)) = n
                    /\ \A k \in 1..n :
                          BlockOf(rag_prompt, k) =
                              DictGet(context_results[k].metadata, "title",
                                      UnknownDocument)
                                \o <<FromClose>> \o context_results[k].content
                    /\ SubSeq(rag_prompt, user[1] + 1, Len(rag_prompt))
                          = query \o <<AssistantCue>>

\* A prompt was composed from two matches of one document.
C5_Witness ==
    /\ ppc = "composed"
    /\ Len(context_results) = 2
    /\ context_results[1].metadata = context_results[2].metadata
    /\ context_results[1].content # context_results[2].content

-----------------------------------------------------------------------------
(* stream_chat.event_generator: the streaming exchange *)

\* str.strip() removes these from both ends.
IsSpace(c) == c \in {" ", "\n", "\t", "\r"}

RECURSIVE LStrip(_)
LStrip(s) == IF s # <<>> /\ IsSpace(Head(s)) THEN LStrip(Tail(s)) ELSE s

RECURSIVE RStrip(_)
RStrip(s) ==
    IF s # <<>> /\ IsSpace(s[Len(s)]) THEN RStrip(SubSeq(s, 1, Len(s) - 1))
    ELSE s

\* s.strip()
PyStrip(s) == RStrip(LStrip(s))

\* s.split("\n"): the pieces between the newlines, empty pieces included.
RECURSIVE SplitLinesFrom(_, _, _, _)
SplitLinesFrom(s, i, cur, acc) ==
    IF i > Len(s) THEN Append(acc, cur)
    ELSE IF s[i] = "\n" THEN SplitLinesFrom(s, i + 1, <<>>, Append(acc, cur))
    ELSE SplitLinesFrom(s, i + 1, Append(cur, s[i]), acc)

SplitLines(s) == SplitLinesFrom(s, 1, <<>>, <<>>)

\* The frames the generator yields.
\* f"data: [CONTEXT] Using information from: {', '.join(sources)}\n\n"
ContextFrame(sources) ==
    [kind |-> "context",
     text |-> <<"Using information from: ">> \o PyJoin(<<", ">>, sources)]

ErrorFrame(what) == [kind |-> "error", text |-> <<what>>]

LineFrame(text) == [kind |-> "line", text |-> text]

\* f"data: [ERROR] API Error: {response.status_code}\n\n"
ApiErrorFrame(status) == [kind |-> "error", text |-> <<"API Error: ", status>>]

\* The status codes of an answer that is not 200.
ErrorStatusCodes == {"429", "500"}

\* What httpx.Response offers for reading a body; any other attribute raises
\* AttributeError.
HttpxResponseAttributes ==
    {"status_code", "text", "content", "read", "aread", "json", "aiter_lines",
     "aiter_text", "aiter_bytes", "aiter_raw", "aclose"}

\* The text fragments a completion line can carry.
Fragments ==
    { <<"a">>, <<" ">>, <<"\n">>, <<"b", "\n">>, <<"\n", "a">>,
      <<" ", "\n", "b">> }

\* An upstream line: whether it starts with "data:", and what follows it.
\* payload "json" parses to an object whose "choices" is the given list; every
\* other payload of kind "garbage" makes json.loads or the lookups raise.
UpstreamLines ==
    { [prefix |-> FALSE, payload |-> "json", choices |-> <<[text |-> <<"a">>]>>],
      [prefix |-> TRUE, payload |-> "empty", choices |-> <<>>],
      [prefix |-> TRUE, payload |-> "[DONE]", choices |-> <<>>],
      [prefix |-> TRUE, payload |-> "garbage", choices |-> <<>>],
      [prefix |-> TRUE, payload |-> "json", choices |-> <<>>],
      [prefix |-> TRUE, payload |-> "json", choices |-> <<[text |-> <<>>]>>] }
    \cup { [prefix |-> TRUE, payload |-> "json", choices |-> <<[text |-> f]>>] :
             f \in Fragments }

\* LineText without the test for the "data:" prefix.
LineTextAnyPrefix(line) ==
    IF line.payload = "empty" \/ line.payload = "[DONE]" THEN <<>>
    ELSE IF line.payload = "garbage" THEN <<>>
    ELSE IF line.choices = <<>> THEN <<>>
    ELSE line.choices[1].text

\* The text an upstream line adds to the buffer (empty: the line is skipped).
LineText(line) ==
    IF ~line.prefix THEN <<>>
    ELSE IF line.payload = "empty" \/ line.payload = "[DONE]" THEN <<>>
    ELSE IF line.payload = "garbage" THEN <<>>
    ELSE IF line.choices = <<>> THEN <<>>
    ELSE line.choices[1].text

\* BufferRemainder with the text after the last newline dropped.
BufferRemainderDropped(lines) == <<>>

\* buffer = lines[-1]
BufferRemainder(lines) == lines[Len(lines)]

\* The frames of `for line in lines[:-1]: if line.strip(): yield ...`.
RECURSIVE CompleteLineFrames(_)
CompleteLineFrames(lines) ==
    IF Len(lines) <= 1 THEN <<>>
    ELSE (IF PyStrip(Head(lines)) # <<>>
          THEN <<LineFrame(PyStrip(Head(lines)))>> ELSE <<>>)
         \o CompleteLineFrames(Tail(lines))

\* RemainingBufferFrames yielding nothing.
RemainingBufferFramesNone(buf) == <<>>

\* The frame of the final `if buffer.strip(): yield ...`.
RemainingBufferFrames(buf) ==
    IF PyStrip(buf) # <<>> THEN <<LineFrame(PyStrip(buf))>> ELSE <<>>

\* AsyncWithExit leaving the connection as it is.
AsyncWithExitKeepsOpen(c) == c

\* Leaving the two `async with` blocks, by return, break or exception: the
\* response and the client are closed (a no-op when none was opened).
AsyncWithExit(c) == "closed"

\* The prompts of a request: plain, padded, and blank.
ChatPrompts == { <<"x">>, <<" ", "x", " ">>, <<" ">> }

\* The answers of the collection to the query of a chat request.
ChatAnswers ==
    { h \in HitLists :
        \A i \in 1..Len(h) : /\ h[i].content = <<"x">>
                             /\ h[i].distance = 0
                             /\ h[i].metadata # [title |-> <<"U">>] }

\* The default title of the context frame.
Unknown == <<"Unknown">>

\* The orders in which a list made of the set S can come out.
SetOrders(S) ==
    { l \in [1..Cardinality(S) -> S] :
        \A i, j \in 1..Cardinality(S) : l[i] = l[j] => i = j }

\* ContextSources keeping every title, one per result.
ContextSourcesWithDuplicates(results) ==
    { [i \in 1..Len(results) |->
          DictGet(results[i].metadata, "title", Unknown)] }

\* list(set([result['metadata'].get('title', 'Unknown') for result in
\* context_results])): the lists it can be; a set has no order.
ContextSources(results) ==
    SetOrders({ DictGet(results[i].metadata, "title", Unknown) :
                  i \in 1..Len(results) })

\* Config.validate: RuntimeError when TOGETHER_API_KEY is not set.
ConfigValidate(key) == IF ~key THEN "RuntimeError" ELSE "ok"

\* StartupValidation without the try: the exception ends the import.
StartupValidationUncaught(key) ==
    IF ConfigValidate(key) = "ok" THEN [serving |-> TRUE, warned |-> FALSE]
    ELSE [serving |-> FALSE, warned |-> FALSE]

\* The try around Config.validate() at the top of main: an exception is
\* logged as a warning and the import goes on.
StartupValidation(key) ==
    IF ConfigValidate(key) = "ok" THEN [serving |-> TRUE, warned |-> FALSE]
    ELSE [serving |-> TRUE, warned |-> TRUE]

StreamStart ==
    /\ api_key \in BOOLEAN
    /\ app = StartupValidation(api_key)
    /\ chat = NoChat
    /\ payload = <<>>
    /\ context_info = <<>>
    /\ buffer = <<>>
    /\ out = <<>>
    /\ fragments = <<>>
    /\ n_lines = 0
    /\ last_line = <<>>
    /\ status_code = ""
    /\ conn = "closed"
    /\ ended = "running"
    /\ spc = "request"

\* stream_chat up to the generator: the prompt is stripped, a blank prompt is
\* answered with HTTP 400; with use_rag and a RAG service the context is
\* retrieved and, when there is any, the prompt is enhanced and context_info
\* set.  The collection is queried, and can fail, only on that path.
StreamChat(prompt, use_rag, rag_available, retrieval_fails, rows) ==
    /\ spc = "request"
    /\ app.serving
    /\ (use_rag /\ rag_available) \/ (~retrieval_fails /\ rows = <<>>)
    /\ retrieval_fails => rows = <<>>
    /\ LET stripped == PyStrip(prompt)
           results ==
               IF use_rag /\ rag_available
               THEN RetrieveContextResult(rows, retrieval_fails) ELSE <<>>
           request == [prompt |-> prompt, use_rag |-> use_rag,
                       rag_available |-> rag_available,
                       search_fails |-> retrieval_fails, rows |-> rows,
                       enhanced_prompt |-> <<>>]
       IN  IF stripped = <<>>
           THEN /\ chat' = request
                /\ ended' = "empty prompt"
                /\ spc' = "done"
                /\ UNCHANGED context_info
           ELSE /\ IF results # <<>>
                   THEN /\ chat' = [request EXCEPT !.enhanced_prompt =
                                     GenerateRagPrompt(stripped,
                                                       results)]
                        /\ \E sources \in ContextSources(results) :
                              context_info' = <<sources>>
                   ELSE /\ chat' = [request EXCEPT !.enhanced_prompt =
                                       stripped]
                        /\ UNCHANGED context_info
                /\ spc' = "start"
                /\ UNCHANGED ended
    /\ UNCHANGED <<app, payload, api_key, buffer, out, fragments, n_lines,
                   last_line, status_code, conn>>
    /\ UNCHANGED exceptStream

\* The generator starts: the context frame, then the API key check.
StreamBegin ==
    /\ spc = "start"
    /\ LET ctx == IF context_info # <<>>
                  THEN <<ContextFrame(context_info[1])>> ELSE <<>>
       IN  IF ~api_key
           THEN /\ out' = out \o ctx \o <<ErrorFrame("API key not configured")>>
                /\ ended' = "no api key"
                /\ spc' = "done"
           ELSE /\ out' = out \o ctx
                /\ ended' = ended
                /\ spc' = "connect"
    /\ UNCHANGED <<app, chat, payload, context_info, api_key,
                   buffer, fragments, n_lines, last_line,
                   status_code, conn>>
    /\ UNCHANGED exceptStream

\* client.stream(...) answers 200: the loop over aiter_lines begins.
StreamConnected ==
    /\ spc = "connect"
    /\ status_code' = "200"
    /\ conn' = "open"
    /\ spc' = "streaming"
    /\ payload' = <<chat.enhanced_prompt>>
    /\ UNCHANGED <<app, chat, context_info, api_key,
                   buffer, out, fragments, n_lines,
                   last_line, ended>>
    /\ UNCHANGED exceptStream

\* client.stream(...) answers another status: the handler awaits
\* response.atext() and then yields the API error frame.  httpx.Response has
\* no atext, so the AttributeError reaches `except Exception`; both context
\* managers exit.
StreamBadStatus(status) ==
    /\ spc = "connect"
    /\ status_code' = status
    /\ out' = IF "atext" \in HttpxResponseAttributes
              THEN Append(out, ApiErrorFrame(status))
              ELSE Append(out, ErrorFrame("Internal server error"))
    /\ conn' = AsyncWithExit(conn)
    /\ ended' = "bad status"
    /\ spc' = "done"
    /\ payload' = <<chat.enhanced_prompt>>
    /\ UNCHANGED <<app, chat, context_info, api_key,
                   buffer, fragments, n_lines, last_line>>
    /\ UNCHANGED exceptStream

\* httpx.RequestError while connecting or while reading a line.
StreamNetworkError ==
    /\ spc \in {"connect", "streaming"}
    /\ out' = Append(out, ErrorFrame("Network error occurred"))
    /\ conn' = AsyncWithExit(conn)
    /\ ended' = "network error"
    /\ spc' = "done"
    /\ payload' = IF spc = "connect" THEN <<chat.enhanced_prompt>>
                ELSE payload
    /\ UNCHANGED <<app, chat, context_info, api_key,
                   buffer, fragments, n_lines, last_line,
                   status_code>>
    /\ UNCHANGED exceptStream

\* One iteration of `async for line in response.aiter_lines()`, with the
\* disconnect poll that ends it.
StreamLine(line, disconnected) ==
    /\ spc = "streaming"
    /\ n_lines < MaxLines
    /\ n_lines' = n_lines + 1
    /\ last_line' = <<line>>
    /\ LET text == LineText(line)
       IN  IF text # <<>>
           THEN LET lines == SplitLines(buffer \o text)
                IN  /\ fragments' = Append(fragments, text)
                    /\ buffer' = BufferRemainder(lines)
                    /\ out' = out \o CompleteLineFrames(lines)
           ELSE UNCHANGED <<fragments, buffer, out>>
    /\ IF disconnected
       THEN ended' = "client disconnected" /\ spc' = "flush"
       ELSE UNCHANGED <<ended, spc>>
    /\ UNCHANGED <<app, chat, payload, context_info, api_key,
                   status_code, conn>>
    /\ UNCHANGED exceptStream

\* aiter_lines is exhausted: the stream ended naturally.
StreamExhausted ==
    /\ spc = "streaming"
    /\ ended' = "natural"
    /\ spc' = "flush"
    /\ UNCHANGED <<app, chat, payload, context_info, api_key,
                   buffer, out, fragments, n_lines,
                   last_line, status_code, conn>>
    /\ UNCHANGED exceptStream

\* After the loop: the remaining buffer is yielded, both context managers exit.
StreamFlush ==
    /\ spc = "flush"
    /\ out' = out \o RemainingBufferFrames(buffer)
    /\ conn' = AsyncWithExit(conn)
    /\ spc' = "done"
    /\ UNCHANGED <<app, chat, payload, context_info, api_key,
                   buffer, fragments, n_lines, last_line,
                   status_code, ended>>
    /\ UNCHANGED exceptStream

StreamNext ==
    \/ \E prompt \in ChatPrompts, use_rag \in BOOLEAN, rag_available \in BOOLEAN,
          retrieval_fails \in BOOLEAN, rows \in ChatAnswers :
          StreamChat(prompt, use_rag, rag_available, retrieval_fails, rows)
    \/ StreamBegin
    \/ StreamConnected
    \/ \E status \in ErrorStatusCodes : StreamBadStatus(status)
    \/ StreamNetworkError
    \/ \E line \in UpstreamLines, disconnected \in BOOLEAN :
          StreamLine(line, disconnected)
    \/ StreamExhausted
    \/ StreamFlush

StreamInit == StreamStart /\ ChunkIdle /\ PromptIdle /\ SyncIdle

StreamSpec == StreamInit /\ [][StreamNext]_vars

-----------------------------------------------------------------------------
(* Claims about the streaming exchange *)

\* The texts of the model-output frames yielded so far.
OutputLines == 
    LET RECURSIVE Texts(_)
        Texts(fs) ==
            IF fs = <<>> THEN <<>>
            ELSE (IF Head(fs).kind = "line" THEN <<Head(fs).text>> ELSE <<>>)
                 \o Texts(Tail(fs))
    IN  Texts(out)

\* The lines of a text that are not empty.
RECURSIVE NonEmptyLines(_)
NonEmptyLines(lines) ==
    IF lines = <<>> THEN <<>>
    ELSE (IF Head(lines) # <<>> THEN <<Head(lines)>> ELSE <<>>)
         \o NonEmptyLines(Tail(lines))

\* The lines of a text, each trimmed, without those the trimming empties.
RECURSIVE TrimmedLines(_)
TrimmedLines(lines) ==
    IF lines = <<>> THEN <<>>
    ELSE (IF PyStrip(Head(lines)) # <<>> THEN <<PyStrip(Head(lines))>> ELSE <<>>)
         \o TrimmedLines(Tail(lines))

EndedNaturally == spc = "done" /\ ended = "natural"

\* C6 as stated: on a stream that ends naturally the output lines are exactly
\* the non-empty lines of the concatenation of all fragments, split at
\* newlines, in order.
C6_LinesAreNonEmptyLines ==
    EndedNaturally => OutputLines = NonEmptyLines(SplitLines(Flatten(fragments)))

\* C6 as amended: on a stream that ends naturally the output lines are exactly
\* the lines of the concatenation of all fragments, split at newlines, each
\* with its leading and trailing whitespace removed, without the lines that
\* this leaves empty, in order.
C6_LinesAreTrimmedLines ==
    EndedNaturally => OutputLines = TrimmedLines(SplitLines(Flatten(fragments)))

\* A line that spans two fragments was emitted, and text left after the last
\* newline was flushed at the end.
C6_Witness ==
    /\ EndedNaturally
    /\ Len(fragments) = 3
    /\ fragments[1][Len(fragments[1])] # "\n"
    /\ \E i \in 1..Len(fragments[2]) : fragments[2][i] = "\n"
    /\ PyStrip(buffer) # <<>>
    /\ Len(OutputLines) >= 2

-----------------------------------------------------------------------------
(* VectorStore and RAGService: the document operations *)

\* The methods class VectorStore defines; any other attribute raises
\* AttributeError.
VectorStoreMethods ==
    {"add_documents", "search", "delete_document", "get_collection_stats",
     "clear_collection"}

\* The chunks of the collection whose metadata document_id is d.
ChunksOf(idx, d) == { c \in idx : c.document_id = d }

\* VectorStore.delete_document
VectorStoreDeleteDocument(idx, d) == idx \ ChunksOf(idx, d)

\* VectorStore.add_documents: one entry per chunk, each under a fresh uuid4.
VectorStoreAddDocuments(idx, uid, chunk_docs) ==
    idx \cup { [uid         |-> uid + k - 1,
                document_id |-> chunk_docs[k].document_id,
                chunk_index |-> chunk_docs[k].chunk_index] :
               k \in 1..Len(chunk_docs) }

\* A call self.vector_store.<method>(arg) on a collection idx.
CallVectorStore(method, idx, arg) ==
    IF method \notin VectorStoreMethods
    THEN [raised |-> TRUE, index |-> idx]
    ELSE IF method = "delete_document"
    THEN [raised |-> FALSE, index |-> VectorStoreDeleteDocument(idx, arg)]
    ELSE IF method = "clear_collection"
    THEN [raised |-> FALSE, index |-> {}]
    ELSE [raised |-> FALSE, index |-> idx]

\* The positional parameters of DocumentProcessor.process_document after self.
ProcessDocumentParams == 1

\* The keys process_document reads from the document it is given.
ProcessDocumentKeys == {"content", "title", "document_id"}

\* What get_document_content of the Docs and the Drive service returns; the
\* content is kept as the number of chunks it splits into.
FetchedDocument(d) ==
    [id |-> d, title |-> d, content |-> MaxDocChunks, url |-> d]

\* CallProcessDocument accepting any arguments and any document.
CallProcessDocumentLenient(n_args, document) ==
    [raised |-> FALSE,
     chunks |-> [k \in 1..document.content |->
                   [document_id |-> document.id, chunk_index |-> k - 1]]]

\* A call process_document(*args) with n_args positional arguments: TypeError
\* on a wrong argument count, KeyError on a missing key, else the chunk list.
CallProcessDocument(n_args, document) ==
    IF n_args # ProcessDocumentParams THEN [raised |-> TRUE, chunks |-> <<>>]
    ELSE IF ~(ProcessDocumentKeys \subseteq DOMAIN document)
    THEN [raised |-> TRUE, chunks |-> <<>>]
    ELSE [raised |-> FALSE,
          chunks |-> [k \in 1..document.content |->
                        [document_id |-> document.id, chunk_index |-> k - 1]]]

\* RAGService.add_document: process_document(document, document_id), then
\* vector_store.add_documents(chunks) and the metadata entry.
RagAddDocument(idx, docs, uid, document) ==
    LET processed == CallProcessDocument(2, document)
    IN  IF processed.raised
        THEN [raised |-> TRUE, index |-> idx, documents |-> docs,
              next_uid |-> uid]
        ELSE [raised    |-> FALSE,
              index     |-> VectorStoreAddDocuments(idx, uid, processed.chunks),
              documents |-> docs \cup {document.id},
              next_uid  |-> uid + Len(processed.chunks)]

\* RAGService.delete_document: vector_store.remove_document(document_id), then
\* the metadata entry; an exception is logged and raised again.
RagDeleteDocument(idx, docs, d) ==
    LET removed == CallVectorStore("remove_document", idx, d)
    IN  IF removed.raised
        THEN [raised |-> TRUE, index |-> idx, documents |-> docs]
        ELSE [raised |-> FALSE, index |-> removed.index,
              documents |-> docs \ {d}]

\* RAGService.clear_all_documents: vector_store.clear_all(), then the
\* metadata; an exception is logged and raised again.
RagClearAllDocuments(idx, docs) ==
    LET cleared == CallVectorStore("clear_all", idx, "")
    IN  IF cleared.raised
        THEN [raised |-> TRUE, index |-> idx, documents |-> docs]
        ELSE [raised |-> FALSE, index |-> cleared.index, documents |-> {}]

-----------------------------------------------------------------------------
(* DriveSyncService.sync_folder and the endpoints of main.py *)

\* The order in which scan_folder lists the files.
ListingOrder == <<"A", "B">>

\* drive_service.scan_folder: one doc_info per listed file.
ScanFolder(rem) ==
    LET all == [k \in 1..Len(ListingOrder) |->
                  [id            |-> ListingOrder[k],
                   modified_time |-> rem[ListingOrder[k]].modified_time]]
        Listed(doc_info) == rem[doc_info.id].listed
    IN  SelectSeq(all, Listed)

\* ZeroStats counting the scan itself as an error.
ZeroStatsOneError(n) ==
    [total_found |-> n, added |-> 0, updated |-> 0, skipped |-> 0,
     errors |-> 1, error_details |-> <<>>]

\* The stats dict sync_folder starts from.
ZeroStats(n) ==
    [total_found |-> n, added |-> 0, updated |-> 0, skipped |-> 0,
     errors |-> 0, error_details |-> <<>>]

StatsSkipped(st) == [st EXCEPT !.skipped = @ + 1]

\* StatsError with the detail appended and the count left as it was.
StatsErrorNotCounted(st, msg) ==
    [st EXCEPT !.error_details = Append(@, msg)]

\* StatsError counting the failed candidate as added as well.
StatsErrorCountsAdded(st, msg) ==
    [st EXCEPT !.errors = @ + 1, !.error_details = Append(@, msg),
               !.added = @ + 1]

\* stats['errors'] += 1; stats['error_details'].append(error_msg)
StatsError(st, msg) ==
    [st EXCEPT !.errors = @ + 1, !.error_details = Append(@, msg)]

StatsIngested(st, is_update) ==
    IF is_update THEN [st EXCEPT !.updated = @ + 1]
    ELSE [st EXCEPT !.added = @ + 1]

\* last_sync_time comes from datetime.now(), or from fromisoformat of its
\* isoformat: it carries no UTC offset.
LastSyncIsAware == FALSE

\* modified_time <= self.last_sync_time raises TypeError when exactly one of
\* the two datetimes carries a UTC offset.
ComparisonRaises(mt) == mt.aware # LastSyncIsAware

\* The test of the skip branch: the modification time is there and is not
\* later than the last sync; an exception of the comparison is swallowed.
IsUnchanged(doc_info) ==
    /\ doc_info.modified_time # <<>>
    /\ last_sync_time # <<>>
    /\ ~ComparisonRaises(doc_info.modified_time[1])
    /\ doc_info.modified_time[1].t <= last_sync_time[1]

ShouldSkip(doc_info, force) ==
    /\ ~force
    /\ doc_info.id \in synced_documents
    /\ IsUnchanged(doc_info)

\* No sync_folder call is between its scan and its return.
NoPassRunning == sync.pc \in {"idle", "done", "failed"}

\* The event loop can run another handler or task: no pass is running, or
\* the pass is suspended in `await asyncio.sleep(0.1)`, its only await.
EventLoopFree == NoPassRunning \/ sync.yielded

\* The collection as an earlier run left it: n[d] chunks of document d,
\* indexed from 0.
StoredIndex(n) ==
    { [uid         |-> (k - 1) * MaxDocChunks + j,
       document_id |-> ListingOrder[k],
       chunk_index |-> j] :
        k \in 1..Len(ListingOrder), j \in 0..(MaxDocChunks - 1) }
    \ { c \in [uid : 0..(2 * MaxDocChunks), document_id : DocIds,
               chunk_index : 0..MaxDocChunks] :
          c.chunk_index >= n[c.document_id] }

\* The file contents with the synced ids left out.
SavedStateNoIds(lst, synced) ==
    [last_sync_time |-> lst, synced_documents |-> {}]

\* The contents _save_sync_state writes; _load_sync_state reads the same back
\* (isoformat / fromisoformat, list / set).
SavedState(lst, synced) ==
    [last_sync_time |-> lst, synced_documents |-> synced]

\* The synced_documents lists of the state files found at start-up.
StoredSyncedSets == { {"A"}, DocIds }

\* The modifiedTime of a file when the service starts: absent, or a Drive
\* timestamp ("...Z", which fromisoformat reads with a UTC offset).
ModifiedTimes == { <<>>, <<[t |-> 0, aware |-> TRUE]>> }

\* The services after construction: the collection and the state file are what
\* earlier runs left on disk, RAGService.documents is empty.
SyncStart ==
    /\ remote \in [DocIds -> [listed : BOOLEAN, modified_time : ModifiedTimes]]
    /\ \A d \in DocIds : ~remote[d].listed => remote[d].modified_time = <<>>
    /\ clock = 1
    /\ \/ /\ state_file = <<>>
          /\ synced_documents = {}
          /\ last_sync_time = <<>>
       \/ /\ synced_documents \in StoredSyncedSets
          /\ last_sync_time = <<0>>
          /\ state_file = <<SavedState(last_sync_time, synced_documents)>>
    /\ \E m \in {0, MaxDocChunks} : index = StoredIndex([d \in DocIds |-> m])
    /\ documents = {}
    /\ next_uid = 2 * MaxDocChunks + 1
    /\ sync = NoPass
    /\ response = NoResponse
    /\ prev_pass = <<>>
    /\ suspended = <<>>

\* A file of the folder is modified (or added).
RemoteModify(d, aware) ==
    /\ EventLoopFree
    /\ clock < MaxClock
    /\ clock' = clock + 1
    /\ remote' = [remote EXCEPT ![d] =
                    [listed |-> TRUE,
                     modified_time |-> <<[t |-> clock + 1, aware |-> aware]>>]]
    /\ prev_pass' = <<>>
    /\ UNCHANGED <<synced_documents, last_sync_time, state_file, index,
                   documents, next_uid, sync, response, suspended>>
    /\ UNCHANGED exceptSync

\* The response of POST /drive/sync ("sync") or POST /drive/auto-sync
\* ("auto"); status 0 while the request is being served.
SyncResponse(op, status, stats) ==
    [op |-> op, id |-> "", status |-> status, stats |-> stats]

\* The response after the call of sync_folder for the endpoint op; the task
\* that POST /chat/stream spawns ("chat") answers nobody.
AnswerOf(op, answer) == IF op = "chat" THEN response ELSE answer

\* sync_folder up to its loop, called for the endpoint op: the scan may raise,
\* an empty listing returns the zero statistics.  A background pass runs
\* after its request was answered.  A pass that is asleep when this one
\* starts stays suspended.
BeginPass(op, force, background, scan_fails) ==
    LET docs == ScanFolder(remote)
        pass == [NoPass EXCEPT !.op = op, !.force = force,
                               !.background = background, !.prior = prev_pass]
    IN  /\ suspended' = IF NoPassRunning THEN suspended
                        ELSE Append(suspended, sync)
        /\ IF scan_fails
           THEN /\ sync' = [pass EXCEPT !.pc = "failed"]
                /\ response' =
                     AnswerOf(op, IF background THEN SyncResponse(op, 200, <<>>)
                                  ELSE SyncResponse(op, 500, <<>>))
                /\ prev_pass' = <<>>
           ELSE IF docs = <<>>
           THEN /\ sync' = [pass EXCEPT !.pc = "done",
                                        !.stats = ZeroStats(Len(docs))]
                /\ response' =
                     AnswerOf(op, IF background THEN SyncResponse(op, 200, <<>>)
                                  ELSE SyncResponse(op, 200, <<ZeroStats(0)>>))
                /\ prev_pass' = <<>>
           ELSE /\ sync' = [pass EXCEPT !.pc = "items", !.docs = docs,
                                        !.stats = ZeroStats(Len(docs))]
                /\ response' =
                     AnswerOf(op, IF background THEN SyncResponse(op, 200, <<>>)
                                  ELSE SyncResponse(op, 0, <<>>))
                /\ prev_pass' = prev_pass

\* POST /drive/sync: a forced sync is handed to the background tasks and the
\* request is answered at once; any other sync runs before the answer.
SyncBegin(force, scan_fails) ==
    /\ EventLoopFree
    /\ BeginPass("sync", force, force, scan_fails)
    /\ UNCHANGED <<remote, clock, synced_documents, last_sync_time, state_file,
                   index, documents, next_uid>>
    /\ UNCHANGED exceptSync

\* The interval DriveSyncService is constructed with: main.py passes none, so
\* it is the default of __init__.
sync_interval_hours == 24

\* DriveSyncService.should_sync at the time now.
ShouldSync(now) ==
    \/ last_sync_time = <<>>
    \/ (now - last_sync_time[1]) * HoursPerTick >= sync_interval_hours

\* The answer of POST /drive/auto-sync when auto_sync_if_needed returns None.
NoSyncNeeded == SyncResponse("auto", 200, <<>>)

\* POST /drive/auto-sync: auto_sync_if_needed runs sync_folder (not forced)
\* when should_sync() holds.
AutoSyncRequest(scan_fails) ==
    /\ EventLoopFree
    /\ IF ShouldSync(clock)
       THEN BeginPass("auto", FALSE, FALSE, scan_fails)
       ELSE /\ response' = NoSyncNeeded
            /\ UNCHANGED <<sync, prev_pass, suspended>>
    /\ UNCHANGED <<remote, clock, synced_documents, last_sync_time, state_file,
                   index, documents, next_uid>>
    /\ UNCHANGED exceptSync

\* POST /chat/stream: asyncio.create_task(auto_sync_if_needed()); the task's
\* result and exceptions go to nobody.
ChatStreamAutoSync(scan_fails) ==
    /\ EventLoopFree
    /\ IF ShouldSync(clock)
       THEN BeginPass("chat", FALSE, TRUE, scan_fails)
       ELSE UNCHANGED <<sync, response, prev_pass, suspended>>
    /\ UNCHANGED <<remote, clock, synced_documents, last_sync_time, state_file,
                   index, documents, next_uid>>
    /\ UNCHANGED exceptSync

\* The loop body up to the insert: the skip test, the fetch, and for an id
\* already synced the removal of the old version, whose failure is swallowed.
SyncCheckFetch(fetch_fails) ==
    /\ sync.pc = "items"
    /\ sync.i < Len(sync.docs)
    /\ LET doc_info == sync.docs[sync.i + 1]
           doc_id   == doc_info.id
       IN  IF ShouldSkip(doc_info, sync.force)
           THEN /\ sync' = [sync EXCEPT !.stats = StatsSkipped(@),
                                        !.log = Append(@, "skipped"),
                                        !.i = @ + 1, !.yielded = FALSE]
                /\ UNCHANGED <<index, documents>>
           ELSE IF fetch_fails
           THEN /\ sync' = [sync EXCEPT
                              !.stats = StatsError(@, <<"retrieving", doc_id>>),
                              !.log = Append(@, "fetch_error"),
                              !.i = @ + 1, !.yielded = FALSE]
                /\ UNCHANGED <<index, documents>>
           ELSE LET is_update == doc_id \in synced_documents
                    removed   == IF is_update
                                 THEN RagDeleteDocument(index, documents, doc_id)
                                 ELSE [raised |-> FALSE, index |-> index,
                                       documents |-> documents]
                IN  /\ index' = removed.index
                    /\ documents' = removed.documents
                    /\ sync' = [sync EXCEPT !.pc = "insert",
                                            !.doc_id = doc_id,
                                            !.is_update = is_update,
                                            !.yielded = FALSE]
    /\ UNCHANGED <<remote, clock, synced_documents, last_sync_time, state_file,
                   next_uid, response, prev_pass, suspended>>
    /\ UNCHANGED exceptSync

\* The loop body from the insert: rag_service.add_document and the counters;
\* after a successful insert the pass awaits asyncio.sleep(0.1).
SyncInsert ==
    /\ sync.pc = "insert"
    /\ LET added == RagAddDocument(index, documents, next_uid,
                                   FetchedDocument(sync.doc_id))
       IN  /\ index' = added.index
           /\ documents' = added.documents
           /\ next_uid' = added.next_uid
           /\ IF added.raised
              THEN /\ sync' = [sync EXCEPT
                                 !.stats = StatsError(@, <<"adding", sync.doc_id>>),
                                 !.log = Append(@, "add_error"),
                                 !.i = @ + 1, !.pc = "items"]
                   /\ UNCHANGED synced_documents
              ELSE /\ synced_documents' = synced_documents \cup {sync.doc_id}
                   /\ sync' = [sync EXCEPT
                                 !.stats = StatsIngested(@, sync.is_update),
                                 !.log = Append(@, IF sync.is_update
                                                   THEN "updated" ELSE "added"),
                                 !.i = @ + 1, !.pc = "items",
                                 !.yielded = TRUE]
    /\ UNCHANGED <<remote, clock, last_sync_time, state_file, response,
                   prev_pass, suspended>>
    /\ UNCHANGED exceptSync

\* After the loop: last_sync_time = datetime.now(), _save_sync_state(), and the
\* statistics are returned (to the caller of a foreground sync).  When the
\* file cannot be written _save_sync_state logs the error and returns.  A
\* pass that this one left suspended is the one to run next.
SyncFinish(save_fails) ==
    /\ sync.pc = "items"
    /\ sync.i = Len(sync.docs)
    /\ clock < MaxClock
    /\ clock' = clock + 1
    /\ last_sync_time' = <<clock + 1>>
    /\ state_file' = IF save_fails THEN state_file
                     ELSE <<SavedState(<<clock + 1>>, synced_documents)>>
    /\ IF suspended = <<>>
       THEN /\ sync' = [sync EXCEPT !.pc = "done", !.saved = ~save_fails,
                                    !.yielded = FALSE]
            /\ UNCHANGED suspended
       ELSE /\ sync' = suspended[Len(suspended)]
            /\ suspended' = SubSeq(suspended, 1, Len(suspended) - 1)
    /\ response' = IF sync.background THEN response
                   ELSE SyncResponse(sync.op, 200, <<sync.stats>>)
    /\ prev_pass' = <<[force |-> sync.force, docs |-> sync.docs,
                       log |-> sync.log]>>
    /\ UNCHANGED <<remote, synced_documents, index, documents, next_uid>>
    /\ UNCHANGED exceptSync

\* DELETE /documents/{document_id}
DeleteDocumentRequest(d) ==
    /\ EventLoopFree
    /\ LET removed == RagDeleteDocument(index, documents, d)
       IN  /\ index' = removed.index
           /\ documents' = removed.documents
           /\ response' = [op |-> "delete", id |-> d,
                           status |-> IF removed.raised THEN 500 ELSE 200,
                           stats |-> <<>>]
    /\ prev_pass' = <<>>
    /\ UNCHANGED <<remote, clock, synced_documents, last_sync_time, state_file,
                   next_uid, sync, suspended>>
    /\ UNCHANGED exceptSync

\* The handler clear_all_documents: rag_service.clear_all_documents, then
\* drive_sync_service.clear_sync_state, which also removes the state file; an
\* exception of either is answered with HTTP 500.
ClearAllDocumentsRequest ==
    /\ EventLoopFree
    /\ LET cleared == RagClearAllDocuments(index, documents)
       IN  /\ index' = cleared.index
           /\ documents' = cleared.documents
           /\ response' = [op |-> "clear", id |-> "",
                           status |-> IF cleared.raised THEN 500 ELSE 200,
                           stats |-> <<>>]
           /\ IF cleared.raised
              THEN UNCHANGED <<synced_documents, last_sync_time, state_file>>
              ELSE /\ synced_documents' = {}
                   /\ last_sync_time' = <<>>
                   /\ state_file' = <<>>
    /\ prev_pass' = <<>>
    /\ UNCHANGED <<remote, clock, next_uid, sync, suspended>>
    /\ UNCHANGED exceptSync

\* The DELETE routes under /documents/ in the order of their registration
\* (@app.delete at main.py:245 and main.py:276).
DeleteRoutes ==
    << [pattern |-> "{document_id}", handler |-> "delete_document"],
       [pattern |-> "clear", handler |-> "clear_all_documents"] >>

\* A path parameter matches any segment, a literal matches itself.
RouteMatches(route, segment) ==
    route.pattern = "{document_id}" \/ route.pattern = segment

\* The router hands the request to the first route that matches.
Dispatch(routes, segment) ==
    LET matching == { k \in 1..Len(routes) : RouteMatches(routes[k], segment) }
        first == CHOOSE k \in matching : \A j \in matching : k <= j
    IN  routes[first].handler

\* The last segments of the DELETE /documents/<segment> requests.
Segments == DocIds \cup {"clear"}

\* DELETE /documents/<segment>
DeleteRequest(segment) ==
    IF Dispatch(DeleteRoutes, segment) = "delete_document"
    THEN DeleteDocumentRequest(segment)
    ELSE ClearAllDocumentsRequest

\* POST /documents/add: the Docs fetch, then rag_service.add_document.
AddDocumentRequest(d, fetch_fails) ==
    /\ EventLoopFree
    /\ LET added == IF fetch_fails
                    THEN [raised |-> TRUE, index |-> index,
                          documents |-> documents, next_uid |-> next_uid]
                    ELSE RagAddDocument(index, documents, next_uid,
                                        FetchedDocument(d))
       IN  /\ index' = added.index
           /\ documents' = added.documents
           /\ next_uid' = added.next_uid
           /\ response' = [op |-> "add", id |-> d,
                           status |-> IF added.raised THEN 500 ELSE 200,
                           stats |-> <<>>]
    /\ prev_pass' = <<>>
    /\ UNCHANGED <<remote, clock, synced_documents, last_sync_time, state_file,
                   sync, suspended>>
    /\ UNCHANGED exceptSync

SyncNext ==
    \/ \E d \in DocIds, aware \in BOOLEAN : RemoteModify(d, aware)
    \/ \E force \in BOOLEAN, scan_fails \in BOOLEAN : SyncBegin(force, scan_fails)
    \/ \E scan_fails \in BOOLEAN : AutoSyncRequest(scan_fails)
    \/ \E scan_fails \in BOOLEAN : ChatStreamAutoSync(scan_fails)
    \/ \E fetch_fails \in BOOLEAN : SyncCheckFetch(fetch_fails)
    \/ SyncInsert
    \/ \E save_fails \in BOOLEAN : SyncFinish(save_fails)
    \/ \E segment \in Segments : DeleteRequest(segment)
    \/ \E d \in DocIds, fetch_fails \in BOOLEAN : AddDocumentRequest(d, fetch_fails)

SyncInit == SyncStart /\ ChunkIdle /\ PromptIdle /\ StreamIdle

SyncSpec == SyncInit /\ [][SyncNext]_vars

-----------------------------------------------------------------------------
(* Claims about the sync pass and the document operations *)

\* The number of candidates of the current pass logged with the given outcome.
Outcomes(tag) ==
    Cardinality({ k \in 1..Len(sync.log) : sync.log[k] = tag })

\* The current pass returned its statistics, was not forced, and follows
\* directly a returned non-forced pass over the same non-empty listing in which
\* every fetch succeeded; every document of the listing carries a
\* modification time.
SecondQuietPass ==
    /\ sync.pc = "done"
    /\ ~sync.force
    /\ sync.docs # <<>>
    /\ \A k \in 1..Len(sync.docs) : sync.docs[k].modified_time # <<>>
    /\ sync.prior # <<>>
    /\ ~sync.prior[1].force
    /\ sync.prior[1].docs = sync.docs
    /\ \A k \in 1..Len(sync.prior[1].log) : sync.prior[1].log[k] # "fetch_error"

\* C7: the second of two non-forced sync_folder calls in a row over the same
\* non-empty listing, with no remote change in between and a modification time
\* on every document, returns added = 0, updated = 0 and skipped = total_found,
\* and fetches no document content.
C7_SecondPassSkipsAll ==
    SecondQuietPass =>
        /\ sync.stats.added = 0
        /\ sync.stats.updated = 0
        /\ sync.stats.skipped = sync.stats.total_found
        /\ \A k \in 1..Len(sync.log) : sync.log[k] = "skipped"

\* C8: in every sync_folder pass the counters added, updated, skipped and
\* errors sum to the number of candidates handled so far, and to total_found
\* when the statistics are returned; each failed fetch or insert counts as one
\* error with one error_details entry, and every candidate of the listing is
\* handled whatever happened to the ones before it.
C8_CountersSumToTotalFound ==
    LET st == sync.stats
    IN  sync.pc \in {"items", "insert", "done"} =>
          /\ st.added + st.updated + st.skipped + st.errors = sync.i
          /\ Len(sync.log) = sync.i
          /\ st.errors = Outcomes("fetch_error") + Outcomes("add_error")
          /\ Len(st.error_details) = st.errors
          /\ st.skipped = Outcomes("skipped")
          /\ st.added = Outcomes("added")
          /\ st.updated = Outcomes("updated")
          /\ st.total_found = Len(sync.docs)
          /\ sync.pc = "done" => sync.i = st.total_found

\* A pass over two candidates returned its statistics after the fetch of the
\* first failed and the insert of the second failed.
C8_Witness ==
    /\ sync.pc = "done"
    /\ sync.log = <<"fetch_error", "add_error">>
    /\ sync.stats.total_found = 2
    /\ sync.stats.errors = 2

\* C9: a DELETE /documents/{document_id} request, which calls
\* RAGService.delete_document, leaves in the collection exactly the chunks
\* whose document_id differs from the target id.
C9_DeleteRemovesTargetChunks ==
    [][\A d \in DocIds :
         DeleteDocumentRequest(d) => index' = { c \in index : c.document_id # d }
      ]_vars

\* C10: when a sync pass is about to insert a document it has ingested before,
\* the old chunks of that document are gone from the collection, and no two
\* chunks of the collection share a (document_id, chunk_index).
C10_ReplaceNotMerge ==
    /\ (sync.pc = "insert" /\ sync.is_update) => ChunksOf(index, sync.doc_id) = {}
    /\ \A c1, c2 \in index :
         (c1.document_id = c2.document_id /\ c1.chunk_index = c2.chunk_index)
           => c1 = c2

\* The state file exists and holds the given time and ids.
FileHolds(file, lst, synced) ==
    /\ file # <<>>
    /\ file[1].last_sync_time = lst
    /\ file[1].synced_documents = synced

\* A step in which a sync_folder pass leaves its loop and returns.
PassReturns == sync.pc = "items" /\ sync'.pc = "done"

ConfiguredIntervals == {12, 24}

\* C13: should_sync() is true exactly when last_sync_time is unset or the
\* time since last_sync_time is at least Config.DRIVE_SYNC_INTERVAL_HOURS, and
\* a POST /drive/auto-sync runs a sync pass exactly when should_sync() is
\* true: for every configured interval, the request is answered "no sync
\* needed" exactly when a last sync is on record less than the interval ago.
C13_ShouldSyncUsesConfiguredInterval ==
    [][\A h \in ConfiguredIntervals :
         (\E scan_fails \in BOOLEAN : AutoSyncRequest(scan_fails)) =>
            ( (response' # NoSyncNeeded)
              <=> \/ last_sync_time = <<>>
                  \/ (clock - last_sync_time[1]) * HoursPerTick >= h )
      ]_vars

\* C16: every answer to a sync request that ran a pass (POST /drive/sync,
\* forced or not, and POST /drive/auto-sync when a sync runs) carries the
\* statistics record, also when items or the folder listing failed.
C16_SyncAlwaysReturnsStats ==
    ( \/ response.op = "sync" /\ response.status # 0
      \/ response.op = "auto" /\ response # NoSyncNeeded /\ response.status # 0 )
        => /\ response.stats # <<>>
           /\ DOMAIN response.stats[1] =
                {"total_found", "added", "updated", "skipped", "errors",
                 "error_details"}

-----------------------------------------------------------------------------
(* Further claims about the streaming exchange *)

\* The sentinel frame that ends a response stream.
DoneFrame == [kind |-> "done", text |-> <<"[DONE]">>]

\* C14: every response stream of POST /chat/stream has a [DONE] sentinel
\* frame as its last frame, however the exchange ended.
C14_StreamEndsWithDone ==
    spc = "done" => (out # <<>> /\ out[Len(out)] = DoneFrame)

\* The frames of a kind yielded so far.
FramesOfKind(kind) == SelectSeq(out, LAMBDA f : f.kind = kind)

\* C15: when the completion endpoint answers with a status other than 200,
\* the stream yields exactly one error frame, which carries the status code,
\* yields no model-output line, and ends.
C15_BadStatusFrameCarriesStatus ==
    (status_code \notin {"", "200"}) =>
        /\ spc = "done"
        /\ Len(FramesOfKind("error")) = 1
        /\ \E k \in 1..Len(FramesOfKind("error")[1].text) :
              FramesOfKind("error")[1].text[k] = status_code
        /\ FramesOfKind("line") = <<>>

\* C19 as stated: once the client's disconnect has been observed no further
\* upstream line is read and nothing is appended to the buffer, and the text
\* in the buffer, if the buffer is not empty, is yielded as one final line
\* before the stream ends.
C19_DisconnectFlushesBuffer ==
    [][ ended = "client disconnected" =>
          /\ n_lines' = n_lines
          /\ fragments' = fragments
          /\ buffer' = buffer
          /\ spc' = "done"
          /\ out' = IF buffer # <<>> THEN Append(out, LineFrame(buffer))
                    ELSE out ]_vars

\* C19 as amended: once the client's disconnect has been observed no further
\* upstream line is read and nothing is appended to the buffer, and the text
\* in the buffer, with its leading and trailing whitespace removed and unless
\* that leaves nothing, is yielded as one final line before the stream ends.
C19_DisconnectFlushesTrimmedBuffer ==
    [][ ended = "client disconnected" =>
          /\ n_lines' = n_lines
          /\ fragments' = fragments
          /\ buffer' = buffer
          /\ spc' = "done"
          /\ out' = IF PyStrip(buffer) # <<>>
                    THEN Append(out, LineFrame(PyStrip(buffer)))
                    ELSE out ]_vars

\* The client left while text was buffered and the upstream had more lines to
\* give; the buffered text was yielded last.
C19_Witness ==
    /\ spc = "done"
    /\ ended = "client disconnected"
    /\ n_lines < MaxLines
    /\ PyStrip(buffer) # <<>>
    /\ out # <<>>
    /\ out[Len(out)] = LineFrame(PyStrip(buffer))

\* An upstream line that carries no usable fragment: no "data:" prefix, an
\* empty payload, the [DONE] marker, a payload that does not parse, or one
\* without choices or text.
NoUsableFragment(line) ==
    \/ ~line.prefix
    \/ line.payload \in {"empty", "[DONE]", "garbage"}
    \/ line.choices = <<>>
    \/ line.choices[1].text = <<>>

\* C20: reading an upstream line that carries no usable fragment yields no
\* frame, leaves the buffer as it was and does not end the stream: the
\* exchange goes on with the next line (unless the disconnect poll that
\* follows the line ends it).
C20_JunkLineIsSkipped ==
    [][ (n_lines' = n_lines + 1 /\ NoUsableFragment(last_line'[1])) =>
          /\ out' = out
          /\ buffer' = buffer
          /\ fragments' = fragments
          /\ conn' = conn
          /\ spc' = "streaming" \/ ended' = "client disconnected" ]_vars

\* The first upstream line carried no fragment, the second one did and a
\* line was yielded from it; the exchange is still streaming.
C20_Witness ==
    /\ spc = "streaming"
    /\ n_lines = 2
    /\ Len(fragments) = 1
    /\ ~NoUsableFragment(last_line[1])
    /\ FramesOfKind("line") # <<>>

\* C21: however the streaming exchange ends (natural end, non-200 status,
\* client disconnect, network failure, unexpected exception), the upstream
\* connection and client are released; after a network failure the last
\* frame of the stream is the network-error frame.
C21_ConnectionReleased ==
    spc = "done" =>
        /\ conn = "closed"
        /\ ended = "network error" =>
             /\ out # <<>>
             /\ out[Len(out)] = ErrorFrame("Network error occurred")
             /\ Len(FramesOfKind("error")) = 1

\* The network failed after the upstream had answered 200 and a line had been
\* yielded; the connection is released.
C21_Witness ==
    /\ spc = "done"
    /\ ended = "network error"
    /\ status_code = "200"
    /\ FramesOfKind("line") # <<>>
    /\ conn = "closed"

\* A step of the sync_folder pass that is between its scan and its return.
PassStep == sync.pc \in {"items", "insert"} /\ sync' # sync

\* The outcome the step logs for a candidate ("" when it logs none).
LoggedOutcome ==
    IF Len(sync'.log) > Len(sync.log) THEN sync'.log[Len(sync'.log)] ELSE ""

\* C22: a step of a sync_folder pass adds an id to synced_documents only when
\* rag_service.add_document succeeded for it, and then counts it as updated
\* if the id was in synced_documents before and as added otherwise; a skipped
\* candidate, a fetch failure or an insert failure leaves synced_documents,
\* added and updated as they were.
C22_SyncedOnlyAfterInsert ==
    [][ PassStep =>
          /\ LoggedOutcome \in {"", "skipped", "fetch_error", "add_error"} =>
                /\ synced_documents' = synced_documents
                /\ sync'.stats.added = sync.stats.added
                /\ sync'.stats.updated = sync.stats.updated
          /\ LoggedOutcome = "updated" =>
                /\ sync.doc_id \in synced_documents
                /\ synced_documents' = synced_documents
                /\ sync'.stats.updated = sync.stats.updated + 1
                /\ sync'.stats.added = sync.stats.added
          /\ LoggedOutcome = "added" =>
                /\ sync.doc_id \notin synced_documents
                /\ synced_documents' = synced_documents \cup {sync.doc_id}
                /\ sync'.stats.added = sync.stats.added + 1
                /\ sync'.stats.updated = sync.stats.updated ]_vars

\* A pass skipped its first candidate and failed to insert the second;
\* neither changed synced_documents or the added and updated counters.
C22_Witness ==
    /\ sync.log = <<"skipped", "add_error">>
    /\ synced_documents = {"A"}
    /\ sync.stats.added = 0
    /\ sync.stats.updated = 0
    /\ sync.stats.skipped = 1
    /\ sync.stats.errors = 1

\* The number of sync_folder passes between their scan and their return.
PassesInProgress ==
    (IF sync.pc \in {"items", "insert"} THEN 1 ELSE 0) + Len(suspended)

NoContextCase ==
    \/ ~chat.use_rag
    \/ ~chat.rag_available
    \/ chat.search_fails
    \/ chat.rows = <<>>

\* The titles of the matches, 'Unknown' for a match without one.
TitlesOfMatches ==
    { IF "title" \in DOMAIN chat.rows[i].metadata
      THEN chat.rows[i].metadata.title ELSE <<"Unknown">> :
        i \in 1..Len(chat.rows) }

\* C24: in POST /chat/stream, when use_rag is false, RAG is unavailable, the
\* retrieval raises or nothing matches, the prompt sent upstream is exactly
\* the trimmed user prompt and no [CONTEXT] frame is emitted; with at least
\* one match the first frame is the one [CONTEXT] frame, which lists each
\* source title once, ahead of every model-output and error frame.
C24_ContextFrameFirst ==
    (spc # "request" /\ PyStrip(chat.prompt) # <<>>) =>
        IF NoContextCase
        THEN /\ FramesOfKind("context") = <<>>
             /\ payload # <<>> => payload[1] = PyStrip(chat.prompt)
        ELSE /\ spc # "start" => out # <<>>
             /\ out # <<>> =>
                  /\ out[1].kind = "context"
                  /\ Len(FramesOfKind("context")) = 1
                  /\ \E l \in SetOrders(TitlesOfMatches) :
                        out[1].text = <<"Using information from: ">>
                                        \o PyJoin(<<", ">>, l)

\* Two matches of one title were retrieved for a padded prompt; the context
\* frame was followed by a model-output line.
C24_Witness ==
    /\ ~NoContextCase
    /\ Len(chat.rows) = 2
    /\ Cardinality(TitlesOfMatches) = 1
    /\ chat.prompt # PyStrip(chat.prompt)
    /\ Len(out) >= 2
    /\ out[1].kind = "context"
    /\ out[2].kind = "line"

C26_ClearIsHandledByClearAll ==
    [][ DeleteRequest("clear") =>
          /\ response'.op = "clear"
          /\ response'.status = 200 =>
               /\ index' = {}
               /\ documents' = {}
               /\ synced_documents' = {}
               /\ last_sync_time' = <<>> ]_vars

ScanEndsPass ==
    /\ sync' # sync
    /\ sync'.docs = <<>>
    /\ sync'.pc \in {"done", "failed"}

\* The statistics with every counter at zero.
AllZeroStats ==
    [total_found |-> 0, added |-> 0, updated |-> 0, skipped |-> 0,
     errors |-> 0, error_details |-> <<>>]

\* C29: a sync_folder call whose listing is empty returns all-zero
\* statistics, one whose listing fails raises; both leave synced_documents,
\* last_sync_time, the state file and the collection as they were and handle
\* no document.
C29_EmptyOrFailedScanChangesNothing ==
    [][ ScanEndsPass =>
          /\ UNCHANGED <<synced_documents, last_sync_time, state_file, index,
                         documents, next_uid>>
          /\ sync'.log = <<>>
          /\ sync'.pc = "done" =>
               /\ sync'.stats = AllZeroStats
               /\ ~sync'.background =>
                    /\ response'.status = 200
                    /\ response'.stats = <<AllZeroStats>>
          /\ (sync'.pc = "failed" /\ ~sync'.background) =>
               /\ response'.status = 500
               /\ response'.stats = <<>> ]_vars

\* A foreground sync over an empty listing returned all-zero statistics and
\* left the stored sync state and the collection in place.
C29_Witness ==
    /\ sync.pc = "done"
    /\ sync.docs = <<>>
    /\ sync.op = "sync"
    /\ response.status = 200
    /\ response.stats = <<AllZeroStats>>
    /\ synced_documents # {}
    /\ last_sync_time # <<>>
    /\ state_file # <<>>
    /\ index # {}

====
